---- MODULE Spec2Model ----
(***************************************************************************)
(* Order lifecycle of the shopora backend: product catalog, per-user cart, *)
(* checkout (createOrder), payment confirmation (updateOrderToPaid), the   *)
(* gateway notification (stripeWebhook) and the admin status update.       *)
(*                                                                         *)
(* The collections (products, carts, orders) are the persistent state.     *)
(* Handlers whose database calls are interleaved with other requests       *)
(* (createOrder, updateOrderToPaid, stripeWebhook) are split at their      *)
(* awaits and run in request slots; a slot holds the documents the handler *)
(* has loaded into memory.  The cart and admin handlers are one action     *)
(* each.  A session (a signed-in client) has one request in flight at a    *)
(* time; the requests of different sessions and of the gateway interleave  *)
(* at every await.  Prices are whole rupees.                               *)
(***************************************************************************)
EXTENDS Integers, Sequences, FiniteSets, TLC

\* ------------------------------------------------------------------ bounds
MaxStock == 2
MaxOrders == 2
MaxTime == 2
MaxPay == 2

\* ------------------------------------------------------------- input sets
Users == {"u1", "u2"}
Products == {"p1", "p2"}
Sessions == {"s1", "s2"}
Slots == Sessions \cup {"gw"}
Prices == {200, 500}
Quantities == 0 .. (MaxStock + 1)
Addresses == {"none", "partial", "full"}
Methods == {"stripe", "cod", "paypal"}
GatewayStatuses == {"succeeded", "requires_payment_method"}

\* orderSchema.paymentMethod.enum
paymentMethodEnum == {"stripe", "cod"}

\* updateOrderStatus: validStatuses (and orderSchema.orderStatus.enum)
validStatuses == {"pending", "processing", "shipped", "delivered", "cancelled"}

\* req.user.id of the session's token (protect)
SessionUser(s) == IF s = "s1" THEN "u1" ELSE "u2"

\* Product.name and Product.images are not edited in this model.
ProductName(p) == IF p = "p1" THEN "Lipstick" ELSE "Serum"
ProductImages(p) == IF p = "p1" THEN <<"https://img/p1">> ELSE <<>>

VARIABLES products, carts, orders, intents, req, now, consumed, passed, raced,
          wishlists, access

vars == <<products, carts, orders, intents, req, now, consumed, passed, raced, wishlists,
          access>>

\* ------------------------------------------------------------ Cart model
RECURSIVE SumPrice(_)
SumPrice(items) ==
  IF items = <<>> THEN 0
  ELSE Head(items).price * Head(items).quantity + SumPrice(Tail(items))

RECURSIVE SumQty(_)
SumQty(items) ==
  IF items = <<>> THEN 0
  ELSE Head(items).quantity + SumQty(Tail(items))

\* A calculateTotals that recomputes the price total only.
CartCalculateTotalsPriceOnly(cart) ==
  [cart EXCEPT !.totalPrice = SumPrice(cart.items)]

\* cartSchema.methods.calculateTotals
CartCalculateTotals(cart) ==
  [cart EXCEPT !.totalPrice = SumPrice(cart.items), !.totalItems = SumQty(cart.items)]

\* Cart.create({ user }): items [], totals default 0
NewCart == [exists |-> TRUE, items |-> <<>>, totalPrice |-> 0, totalItems |-> 0]
NoCart == [exists |-> FALSE, items |-> <<>>, totalPrice |-> 0, totalItems |-> 0]

\* A findIndex that never matches: every add pushes a new item.
FindIndexNever(items, p) == 0

\* this.items.findIndex(item => item.product.toString() === product.toString())
FindIndex(items, p) ==
  IF \E k \in 1 .. Len(items) : items[k].product = p
  THEN CHOOSE k \in 1 .. Len(items) :
         items[k].product = p /\ \A j \in 1 .. (k - 1) : items[j].product # p
  ELSE 0

\* this.items.filter(item => item.product.toString() !== productId.toString())
RECURSIVE FilterOut(_, _)
FilterOut(items, p) ==
  IF items = <<>> THEN <<>>
  ELSE IF Head(items).product = p THEN FilterOut(Tail(items), p)
       ELSE <<Head(items)>> \o FilterOut(Tail(items), p)

\* productDoc.images?.[0]?.url || '' : the elements of Product.images are
\* strings, a string has no url property, so the snapshot is always ''.
SnapshotImage(images) == ""

\* cartItemSchema validators run by cart.save(): quantity min 1, price min 0
CartItemsValid(items) ==
  \A k \in 1 .. Len(items) : items[k].quantity >= 1 /\ items[k].price >= 0

\* Outcome of cartSchema.methods.addItem on the loaded cart document:
\* res is "ok" or the error thrown, cart the document as saved.
AddItem(cart, p, quantity) ==
  LET productDoc == products[p]
      idx == FindIndex(cart.items, p)
  IN  IF ~productDoc.exists THEN [res |-> "NotFound", cart |-> cart]
      ELSE IF ~productDoc.inStock THEN [res |-> "OutOfStock", cart |-> cart]
      ELSE IF idx > 0 /\ cart.items[idx].quantity + quantity > productDoc.stock
        THEN [res |-> "InsufficientStock", cart |-> cart]
      ELSE
        LET items2 ==
              IF idx > 0
              THEN [cart.items EXCEPT ![idx].quantity = @ + quantity]
              ELSE Append(cart.items,
                          [product |-> p, name |-> ProductName(p),
                           image |-> SnapshotImage(ProductImages(p)),
                           price |-> productDoc.price, quantity |-> quantity])
        IN  IF CartItemsValid(items2)
            THEN [res |-> "ok", cart |-> CartCalculateTotals([cart EXCEPT !.items = items2])]
            ELSE [res |-> "ValidationError", cart |-> cart]

\* cartSchema.methods.removeItem
RemoveItem(cart, p) ==
  CartCalculateTotals([cart EXCEPT !.items = FilterOut(cart.items, p)])

\* cartSchema.methods.updateItemQuantity
UpdateItemQuantity(cart, p, quantity) ==
  LET idx == FindIndex(cart.items, p)
  IN  IF quantity <= 0 THEN [res |-> "ok", cart |-> RemoveItem(cart, p)]
      ELSE IF idx = 0 THEN [res |-> "ItemNotFound", cart |-> cart]
      ELSE IF ~products[p].exists THEN [res |-> "Unexpected", cart |-> cart]
      ELSE IF quantity > products[p].stock THEN [res |-> "InsufficientStock", cart |-> cart]
      ELSE [res |-> "ok",
            cart |-> CartCalculateTotals([cart EXCEPT !.items[idx].quantity = quantity])]

\* cartSchema.methods.clearCart
ClearedCart(cart) == [cart EXCEPT !.items = <<>>, !.totalPrice = 0, !.totalItems = 0]

\* ---------------------------------------------------------- Wishlist model
\* Wishlist.findOne found nothing
NoWishlist == [exists |-> FALSE, products |-> <<>>]

\* Wishlist.create({ user })
NewWishlist == [exists |-> TRUE, products |-> <<>>]

\* wishlistSchema.methods.hasProduct
HasProduct(wishlist, p) == \E i \in 1 .. Len(wishlist.products) : wishlist.products[i] = p

\* wishlistSchema.methods.addProduct
AddProduct(wishlist, p) ==
  IF ~HasProduct(wishlist, p)
  THEN [wishlist EXCEPT !.products = Append(@, p)]
  ELSE wishlist

\* wishlistSchema.methods.removeProduct
RemoveProduct(wishlist, p) ==
  [wishlist EXCEPT !.products = SelectSeq(@, LAMBDA id : id # p)]

\* wishlistSchema.methods.clearWishlist
ClearedWishlist(wishlist) == [wishlist EXCEPT !.products = <<>>]

\* ------------------------------------------------ first access to the cart
\* Two requests of one user that run side by side (two tabs).
Tabs == {1, 2}

NoAccess == [pc |-> "idle", res |-> "none"]

\* Cart.create({ user }) against the unique index on user; the index makes the
\* collection hold at most one cart document per user.
CartCreate(u) ==
  IF carts[u].exists THEN [res |-> "DuplicateKey", cart |-> carts[u]]
  ELSE [res |-> "cart", cart |-> NewCart]

\* ---------------------------------------------------------- request slots
Idle ==
  [op |-> "idle", pc |-> "idle", oid |-> 0, i |-> 0, items |-> <<>>,
   stock |-> 0, inStock |-> FALSE, stale |-> FALSE, addr |-> "none",
   method |-> "stripe", prId |-> 0, paidAt |-> 0]

\* A checkout holds the cart document it loaded until cart.clearCart() saves
\* it; that save carries the version the document was loaded with.  A write
\* by another request that changes the item array makes the loaded copy stale.
HoldsCart(r, u) ==
  r \in Sessions /\ SessionUser(r) = u /\ req[r].op = "checkout" /\ req[r].pc \in {"check", "save", "clear"}

MarkStale(u, changed) ==
  [r \in Slots |-> IF changed /\ HoldsCart(r, u) THEN [req[r] EXCEPT !.stale = TRUE] ELSE req[r]]

\* Same product references in the same positions (the array kept its shape).
SameShape(a, b) ==
  Len(a) = Len(b) /\ \A k \in 1 .. Len(a) : a[k].product = b[k].product

\* ---------------------------------------------------------------- Init
SeedItem(p, price) ==
  [product |-> p, name |-> ProductName(p), image |-> "https://img/stored",
   price |-> price, quantity |-> 1]

\* Cart documents found in the collection at start-up.
SeedCarts ==
  { NoCart,
    [exists |-> TRUE, items |-> <<SeedItem("p1", 200)>>, totalPrice |-> 200, totalItems |-> 1],
    [exists |-> TRUE, items |-> <<SeedItem("p2", 500), SeedItem("p1", 200)>>,
     totalPrice |-> 700, totalItems |-> 2] }

Init ==
  /\ products = [p \in Products |->
       [exists |-> TRUE, price |-> IF p = "p1" THEN 200 ELSE 500,
        stock |-> MaxStock, inStock |-> TRUE]]
  /\ carts \in [Users -> SeedCarts]
  /\ orders = <<>>
  /\ intents = {}
  /\ req = [r \in Slots |-> Idle]
  /\ now = 1
  /\ consumed = [o \in 1 .. MaxOrders |-> [p \in Products |-> 0]]
  /\ passed = [o \in 1 .. MaxOrders |-> 0]
  /\ raced = [o \in 1 .. MaxOrders |-> FALSE]
  /\ wishlists = [u \in Users |-> NoWishlist]
  /\ access = [u \in Users |-> [t \in Tabs |-> NoAccess]]

\* ----------------------------------------------------------- cart handlers
\* cartController.getCart
GetCart(s) ==
  /\ req[s] = Idle
  /\ ~carts[SessionUser(s)].exists
  /\ carts' = [carts EXCEPT ![SessionUser(s)] = NewCart]
  /\ UNCHANGED <<products, orders, intents, req, now, consumed, passed, raced, wishlists, access>>

\* cartController.getCart in its two database turns: Cart.findOne ...
GetCartFind(u, t) ==
  /\ access[u][t].pc = "idle"
  /\ access' = [access EXCEPT ![u][t] =
        IF carts[u].exists THEN [pc |-> "done", res |-> "cart"]
        ELSE [pc |-> "create", res |-> "none"]]
  /\ UNCHANGED <<products, carts, orders, intents, req, now, consumed, passed, raced, wishlists>>

\* ... and Cart.create when findOne found nothing; an error goes to next(error).
GetCartCreate(u, t) ==
  /\ access[u][t].pc = "create"
  /\ carts' = [carts EXCEPT ![u] = CartCreate(u).cart]
  /\ access' = [access EXCEPT ![u][t] = [pc |-> "done", res |-> CartCreate(u).res]]
  /\ UNCHANGED <<products, orders, intents, req, now, consumed, passed, raced, wishlists>>

\* The response has been sent; the tab is free for its next request.
GetCartEnd(u, t) ==
  /\ access[u][t].pc = "done"
  /\ access' = [access EXCEPT ![u][t] = NoAccess]
  /\ UNCHANGED <<products, carts, orders, intents, req, now, consumed, passed, raced, wishlists>>

\* cartController.addToCart: response and the cart document left in the
\* collection (Cart.create runs before cart.addItem).
AddToCartOut(u, p, quantity) ==
  IF ~products[p].exists THEN [res |-> "NotFound", cart |-> carts[u]]
  ELSE AddItem(IF carts[u].exists THEN carts[u] ELSE NewCart, p, quantity)

AddToCart(s, p, quantity) ==
  LET u == SessionUser(s)
      out == AddToCartOut(u, p, quantity)
  IN  /\ req[s] = Idle
      /\ carts' = [carts EXCEPT ![u] = out.cart]
      /\ req' = MarkStale(u, ~SameShape(out.cart.items, carts[u].items))
      /\ UNCHANGED <<products, orders, intents, now, consumed, passed, raced, wishlists, access>>

\* cartController.updateCartItem
UpdateCartItemOut(u, p, quantity) ==
  IF quantity = 0 \/ quantity < 0 THEN [res |-> "ValidQuantityRequired", cart |-> carts[u]]
  ELSE IF ~carts[u].exists THEN [res |-> "CartNotFound", cart |-> carts[u]]
  ELSE UpdateItemQuantity(carts[u], p, quantity)

UpdateCartItem(s, p, quantity) ==
  LET u == SessionUser(s)
      out == UpdateCartItemOut(u, p, quantity)
  IN  /\ req[s] = Idle
      /\ carts' = [carts EXCEPT ![u] = out.cart]
      /\ req' = MarkStale(u, ~SameShape(out.cart.items, carts[u].items))
      /\ UNCHANGED <<products, orders, intents, now, consumed, passed, raced, wishlists, access>>

\* cartController.removeFromCart
RemoveFromCartOut(u, p) ==
  IF ~carts[u].exists THEN [res |-> "CartNotFound", cart |-> carts[u]]
  ELSE [res |-> "ok", cart |-> RemoveItem(carts[u], p)]

RemoveFromCart(s, p) ==
  LET u == SessionUser(s)
      out == RemoveFromCartOut(u, p)
  IN  /\ req[s] = Idle
      /\ carts' = [carts EXCEPT ![u] = out.cart]
      /\ req' = MarkStale(u, ~SameShape(out.cart.items, carts[u].items))
      /\ UNCHANGED <<products, orders, intents, now, consumed, passed, raced, wishlists, access>>

\* cartController.clearCart
ClearCartOut(u) ==
  IF ~carts[u].exists THEN [res |-> "CartNotFound", cart |-> carts[u]]
  ELSE [res |-> "ok", cart |-> ClearedCart(carts[u])]

ClearCart(s) ==
  LET u == SessionUser(s)
      out == ClearCartOut(u)
  IN  /\ req[s] = Idle
      /\ carts' = [carts EXCEPT ![u] = out.cart]
      /\ req' = MarkStale(u, ~SameShape(out.cart.items, carts[u].items))
      /\ UNCHANGED <<products, orders, intents, now, consumed, passed, raced, wishlists, access>>

\* --------------------------------------------------------- product handlers
\* productController.updateProduct with body { price }
UpdateProductPrice(p, price) ==
  /\ products[p].exists
  /\ products' = [products EXCEPT ![p].price = price]
  /\ UNCHANGED <<carts, orders, intents, req, now, consumed, passed, raced, wishlists, access>>

\* productController.updateProduct with body { stock }: inStock is derived
\* from the body, runValidators rejects a negative stock.
UpdateProductStock(p, stock) ==
  /\ products[p].exists
  /\ stock >= 0
  /\ products' = [products EXCEPT ![p].stock = stock, ![p].inStock = (stock > 0)]
  /\ UNCHANGED <<carts, orders, intents, req, now, consumed, passed, raced, wishlists, access>>

\* productController.updateProduct with body { inStock } and no stock: the
\* body is passed to findByIdAndUpdate as it is, the flag is not derived.
UpdateProductInStock(p, flag) ==
  /\ products[p].exists
  /\ products' = [products EXCEPT ![p].inStock = flag]
  /\ UNCHANGED <<carts, orders, intents, req, now, consumed, passed, raced, wishlists, access>>

\* A deletion that also takes the product's lines out of the stored orders.
DeleteProductCascade(p) ==
  /\ products[p].exists
  /\ products' = [products EXCEPT ![p].exists = FALSE]
  /\ orders' = [o \in 1 .. Len(orders) |->
        [orders[o] EXCEPT !.orderItems = SelectSeq(@, LAMBDA item : item.product # p)]]
  /\ UNCHANGED <<carts, intents, req, now, consumed, passed, raced, wishlists, access>>

\* productController.deleteProduct
DeleteProduct(p) ==
  /\ products[p].exists
  /\ products' = [products EXCEPT ![p].exists = FALSE]
  /\ UNCHANGED <<carts, orders, intents, req, now, consumed, passed, raced, wishlists, access>>

\* ------------------------------------------------------------ Order model
\* Math.round(x * 0.1) for a whole non-negative x (halves round up)
RoundTenth(x) == (x + 5) \div 10

\* A calculateTotals whose free-shipping threshold includes 500.
OrderCalculateTotalsFreeAt500(order) ==
  LET itemsPrice == SumPrice(order.orderItems)
      taxPrice == RoundTenth(itemsPrice)
      shippingPrice == IF itemsPrice >= 500 THEN 0 ELSE 50
  IN  [order EXCEPT !.itemsPrice = itemsPrice, !.taxPrice = taxPrice,
                    !.shippingPrice = shippingPrice,
                    !.totalPrice = itemsPrice + taxPrice + shippingPrice]

\* orderSchema.methods.calculateTotals
OrderCalculateTotals(order) ==
  LET itemsPrice == SumPrice(order.orderItems)
      taxPrice == RoundTenth(itemsPrice)
      shippingPrice == IF itemsPrice > 500 THEN 0 ELSE 50
  IN  [order EXCEPT !.itemsPrice = itemsPrice, !.taxPrice = taxPrice,
                    !.shippingPrice = shippingPrice,
                    !.totalPrice = itemsPrice + taxPrice + shippingPrice]

\* A snapshot that takes the price from the catalog instead of the cart item.
SnapshotItemsCatalogPrice(items) ==
  [k \in 1 .. Len(items) |->
     [product |-> items[k].product, name |-> items[k].name, image |-> items[k].image,
      price |-> products[items[k].product].price, quantity |-> items[k].quantity]]

\* createOrder: cart.items.map(item => ({ product, name, image, price, quantity }))
SnapshotItems(items) ==
  [k \in 1 .. Len(items) |->
     [product |-> items[k].product, name |-> items[k].name, image |-> items[k].image,
      price |-> items[k].price, quantity |-> items[k].quantity]]

\* createOrder: new Order({...}), order.calculateTotals(), the cod branch
\* An order document with no cod branch.
BuildOrderUnpaidCod(u, items, addr, method, t) ==
  LET fresh ==
        [exists |-> TRUE, user |-> u, orderItems |-> SnapshotItems(items),
         shippingAddress |-> addr, paymentMethod |-> method, paymentIntentId |-> 0,
         prId |-> 0, prStatus |-> "none",
         itemsPrice |-> 0, shippingPrice |-> 0, taxPrice |-> 0, totalPrice |-> 0,
         isPaid |-> FALSE, paidAt |-> 0, isDelivered |-> FALSE, deliveredAt |-> 0,
         orderStatus |-> "pending"]
  IN  OrderCalculateTotals(fresh)

BuildOrder(u, items, addr, method, t) ==
  LET fresh ==
        [exists |-> TRUE, user |-> u, orderItems |-> SnapshotItems(items),
         shippingAddress |-> addr, paymentMethod |-> method, paymentIntentId |-> 0,
         prId |-> 0, prStatus |-> "none",
         itemsPrice |-> 0, shippingPrice |-> 0, taxPrice |-> 0, totalPrice |-> 0,
         isPaid |-> FALSE, paidAt |-> 0, isDelivered |-> FALSE, deliveredAt |-> 0,
         orderStatus |-> "pending"]
      priced == OrderCalculateTotals(fresh)
  IN  IF method = "cod"
      THEN [priced EXCEPT !.isPaid = TRUE, !.paidAt = t, !.orderStatus = "processing"]
      ELSE priced

\* Validators run by order.save(): orderItemSchema (name and image required,
\* a required String rejects ''; quantity min 1), shippingAddressSchema (all
\* of name, phone, address, city, state, zipCode required), paymentMethod enum.
OrderValid(order) ==
  /\ \A k \in 1 .. Len(order.orderItems) :
       /\ order.orderItems[k].name # ""
       /\ order.orderItems[k].image # ""
       /\ order.orderItems[k].quantity >= 1
  /\ order.shippingAddress = "full"
  /\ order.paymentMethod \in paymentMethodEnum

OrderIds == 1 .. Len(orders)

\* ---------------------------------------------------------------- checkout
\* createOrder up to Cart.findOne: address check, empty-cart check
CreateOrderStart(u, addr) ==
  IF addr = "none" THEN "ShippingAddressRequired"
  ELSE IF ~carts[u].exists \/ Len(carts[u].items) = 0 THEN "CartEmpty"
  ELSE "go"

PendingCheckouts == {r \in Slots : req[r].op = "checkout" /\ req[r].pc \in {"check", "save"}}

CoStart(r, addr, method) ==
  /\ r \in Sessions /\ req[r] = Idle
  /\ Len(orders) + Cardinality(PendingCheckouts) < MaxOrders
  /\ IF CreateOrderStart(SessionUser(r), addr) = "go"
     THEN req' = [req EXCEPT ![r] =
                    [Idle EXCEPT !.op = "checkout", !.pc = "check", !.i = 1,
                                 !.items = carts[SessionUser(r)].items,
                                 !.addr = addr, !.method = method]]
     ELSE UNCHANGED req
  /\ UNCHANGED <<products, carts, orders, intents, now, consumed, passed, raced, wishlists, access>>

\* A validation turn that does not compare the stock with the quantity.
CheckStockNoQuantity(item) ==
  LET product == products[item.product]
  IN  IF ~product.exists THEN "NotFound"
      ELSE IF ~product.inStock THEN "OutOfStock"
      ELSE "ok"

\* createOrder, one turn of the validation loop on the loaded cart item
CheckStock(item) ==
  LET product == products[item.product]
  IN  IF ~product.exists THEN "NotFound"
      ELSE IF ~product.inStock \/ product.stock < item.quantity THEN "OutOfStock"
      ELSE "ok"

CoCheck(r) ==
  /\ req[r].op = "checkout" /\ req[r].pc = "check"
  /\ IF CheckStock(req[r].items[req[r].i]) = "ok"
     THEN req' = [req EXCEPT ![r].i = @ + 1,
                             ![r].pc = IF req[r].i = Len(req[r].items) THEN "save" ELSE "check"]
     ELSE req' = [req EXCEPT ![r] = Idle]
  /\ UNCHANGED <<products, carts, orders, intents, now, consumed, passed, raced, wishlists, access>>

\* createOrder: build the order and await order.save()
\* A save that also takes the ordered quantity of the first line off the stock.
CoSaveReserving(r) ==
  /\ req[r].op = "checkout" /\ req[r].pc = "save"
  /\ LET order == BuildOrder(SessionUser(r), req[r].items, req[r].addr, req[r].method, now)
     IN  IF OrderValid(order)
         THEN /\ orders' = Append(orders, order)
              /\ req' = [req EXCEPT ![r].pc = "clear", ![r].oid = Len(orders) + 1]
              /\ products' = [products EXCEPT ![order.orderItems[1].product].stock =
                                IF @ >= order.orderItems[1].quantity
                                THEN @ - order.orderItems[1].quantity ELSE @]
         ELSE /\ req' = [req EXCEPT ![r] = Idle]
              /\ UNCHANGED <<orders, products>>
  /\ UNCHANGED <<carts, intents, now, consumed, passed, raced, wishlists, access>>

CoSave(r) ==
  /\ req[r].op = "checkout" /\ req[r].pc = "save"
  /\ LET order == BuildOrder(SessionUser(r), req[r].items, req[r].addr, req[r].method, now)
     IN  IF OrderValid(order)
         THEN /\ orders' = Append(orders, order)
              /\ req' = [req EXCEPT ![r].pc = "clear", ![r].oid = Len(orders) + 1]
         ELSE /\ req' = [req EXCEPT ![r] = Idle]
              /\ UNCHANGED orders
  /\ UNCHANGED <<products, carts, intents, now, consumed, passed, raced, wishlists, access>>

\* createOrder: await cart.clearCart(); the save of the loaded cart document
\* is rejected (VersionError) when the stored item array changed meanwhile.
CoClear(r) ==
  /\ req[r].op = "checkout" /\ req[r].pc = "clear"
  /\ IF req[r].stale
     THEN /\ req' = [req EXCEPT ![r] = Idle]
          /\ UNCHANGED carts
     ELSE /\ carts' = [carts EXCEPT ![SessionUser(r)] = ClearedCart(@)]
          /\ req' = [MarkStale(SessionUser(r), TRUE) EXCEPT ![r] =
                       IF req[r].method = "stripe" THEN [req[r] EXCEPT !.pc = "intent"] ELSE Idle]
  /\ UNCHANGED <<products, orders, intents, now, consumed, passed, raced, wishlists, access>>

\* A catch block that answers the error and keeps the order.
CoIntentKeepsOrder(r, created) ==
  /\ req[r].op = "checkout" /\ req[r].pc = "intent"
  /\ IF created
     THEN /\ orders' = [orders EXCEPT ![req[r].oid].paymentIntentId = req[r].oid]
          /\ intents' = intents \cup {req[r].oid}
     ELSE UNCHANGED <<orders, intents>>
  /\ req' = [req EXCEPT ![r] = Idle]
  /\ UNCHANGED <<products, carts, now, consumed, passed, raced, wishlists, access>>

\* createOrder: createPaymentIntent succeeded, the id is stored on the order;
\* or it threw and the order is deleted.
CoIntent(r, created) ==
  /\ req[r].op = "checkout" /\ req[r].pc = "intent"
  /\ IF created
     THEN /\ orders' = [orders EXCEPT ![req[r].oid].paymentIntentId = req[r].oid]
          /\ intents' = intents \cup {req[r].oid}
     ELSE /\ orders' = [orders EXCEPT ![req[r].oid].exists = FALSE]
          /\ UNCHANGED intents
  /\ req' = [req EXCEPT ![r] = Idle]
  /\ UNCHANGED <<products, carts, now, consumed, passed, raced, wishlists, access>>

\* ------------------------------------------------------ payment confirmation
\* A guard without the isPaid test.
PayGuardNoPaidTest(o, pi, verified) ==
  IF o \notin OrderIds \/ ~orders[o].exists THEN "NotFound"
  ELSE IF orders[o].paymentMethod = "stripe" /\ pi # 0 /\ verified = "throw"
    THEN "PaymentVerificationFailed"
  ELSE IF orders[o].paymentMethod = "stripe" /\ pi # 0 /\ verified # "succeeded"
    THEN "PaymentNotSuccessful"
  ELSE "go"

\* updateOrderToPaid up to the stock loop: Order.findById, the isPaid guard,
\* verifyPaymentIntent when the order is a stripe order and an id was sent
\* (pi = 0: no paymentIntentId in the body; verified = "throw": the call threw).
PayGuard(o, pi, verified) ==
  IF o \notin OrderIds \/ ~orders[o].exists THEN "NotFound"
  ELSE IF orders[o].isPaid THEN "AlreadyPaid"
  ELSE IF orders[o].paymentMethod = "stripe" /\ pi # 0 /\ verified = "throw"
    THEN "PaymentVerificationFailed"
  ELSE IF orders[o].paymentMethod = "stripe" /\ pi # 0 /\ verified # "succeeded"
    THEN "PaymentNotSuccessful"
  ELSE "go"

PayStart(r, o, pi, verified) ==
  /\ r \in Sessions /\ req[r] = Idle
  /\ passed[o] < MaxPay
  /\ IF PayGuard(o, pi, verified) = "go"
     THEN /\ req' = [req EXCEPT ![r] =
                       [Idle EXCEPT !.op = "pay", !.pc = "find", !.oid = o, !.i = 1,
                                    !.items = orders[o].orderItems, !.paidAt = now,
                                    !.prId = IF orders[o].paymentMethod = "stripe" THEN pi ELSE 0]]
          /\ passed' = [passed EXCEPT ![o] = @ + 1]
     ELSE UNCHANGED <<req, passed>>
  /\ UNCHANGED <<products, carts, orders, intents, now, consumed, raced, wishlists, access>>

\* ------------------------------------------------------ gateway notification
\* A lookup by the intent id that checkout stored on the order.
FindOrderByPaymentIntentId(id) ==
  IF \E o \in OrderIds : orders[o].exists /\ orders[o].paymentIntentId = id
  THEN CHOOSE o \in OrderIds :
         /\ orders[o].exists /\ orders[o].paymentIntentId = id
         /\ \A k \in 1 .. (o - 1) : ~(orders[k].exists /\ orders[k].paymentIntentId = id)
  ELSE 0

\* Order.findOne({ 'paymentResult.id': id }): the first stored order whose
\* paymentResult carries the id, 0 when there is none
FindOrderByPaymentResult(id) ==
  IF \E o \in OrderIds : orders[o].exists /\ orders[o].prId = id
  THEN CHOOSE o \in OrderIds :
         /\ orders[o].exists /\ orders[o].prId = id
         /\ \A k \in 1 .. (o - 1) : ~(orders[k].exists /\ orders[k].prId = id)
  ELSE 0

\* The order checkout created the intent for (the intent id is the order's).
PayInFlight(o) == \E r \in Slots : req[r].op = "pay" /\ req[r].oid = o

\* stripeWebhook, case payment_intent.succeeded
WebhookSucceeded(id) ==
  /\ req["gw"] = Idle
  /\ id \in intents
  /\ LET o == FindOrderByPaymentResult(id)
     IN  IF o # 0 /\ ~orders[o].isPaid
         THEN req' = [req EXCEPT !["gw"] =
                        [Idle EXCEPT !.op = "webhook", !.pc = "find", !.oid = o, !.i = 1,
                                     !.items = orders[o].orderItems, !.paidAt = now,
                                     !.prId = id]]
         ELSE UNCHANGED req
  /\ raced' = [raced EXCEPT ![id] = @ \/ PayInFlight(id)]
  /\ UNCHANGED <<products, carts, orders, intents, now, consumed, passed, wishlists, access>>

\* A failed-payment notification that also takes the payment back.
WebhookFailedUnpays(id) ==
  /\ id \in intents
  /\ LET o == FindOrderByPaymentResult(id)
     IN  /\ o # 0
         /\ orders' = [orders EXCEPT ![o].prId = id, ![o].prStatus = "failed",
                                     ![o].isPaid = FALSE]
  /\ UNCHANGED <<products, carts, intents, req, now, consumed, passed, raced, wishlists, access>>

\* stripeWebhook, case payment_intent.payment_failed
WebhookFailed(id) ==
  /\ id \in intents
  /\ LET o == FindOrderByPaymentResult(id)
     IN  /\ o # 0
         /\ orders' = [orders EXCEPT ![o].prId = id, ![o].prStatus = "failed"]
  /\ UNCHANGED <<products, carts, intents, req, now, consumed, passed, raced, wishlists, access>>

\* ------------------------------------------- the stock loop of both handlers
\* const product = await Product.findById(item.product)
StockFind(r) ==
  /\ req[r].op \in {"pay", "webhook"} /\ req[r].pc = "find"
  /\ LET product == products[req[r].items[req[r].i].product]
     IN  IF product.exists
         THEN req' = [req EXCEPT ![r].pc = "write", ![r].stock = product.stock,
                                 ![r].inStock = product.inStock]
         ELSE req' = [req EXCEPT ![r].i = @ + 1,
                                 ![r].pc = IF req[r].i = Len(req[r].items) THEN "order" ELSE "find"]
  /\ UNCHANGED <<products, carts, orders, intents, now, consumed, passed, raced, wishlists, access>>

\* product.stock -= item.quantity
NewStock(stock, quantity) == stock - quantity

\* updateOrderToPaid: product.inStock = product.stock > 0
\* stripeWebhook: if (product.stock <= 0) product.inStock = false
NewInStock(op, stock, inStock) ==
  IF op = "pay" THEN stock > 0
  ELSE IF stock <= 0 THEN FALSE ELSE inStock

\* A save that does not run the stock validator.
StockSaveErrorNoMin(r) ==
  LET item == req[r].items[req[r].i]
  IN  IF ~products[item.product].exists THEN "DocumentNotFound"
      ELSE "none"

\* await product.save() of the loaded product document: the stock validator
\* (min 0) rejects a negative value, a deleted document is not found, else
\* the modified paths are written.
StockSaveError(r) ==
  LET item == req[r].items[req[r].i]
  IN  IF NewStock(req[r].stock, item.quantity) < 0 THEN "ValidationError"
      ELSE IF ~products[item.product].exists THEN "DocumentNotFound"
      ELSE "none"

StockSave(r) ==
  /\ req[r].op \in {"pay", "webhook"} /\ req[r].pc = "write"
  /\ LET item == req[r].items[req[r].i]
         stock2 == NewStock(req[r].stock, item.quantity)
         inStock2 == NewInStock(req[r].op, stock2, req[r].inStock)
     IN  IF StockSaveError(r) # "none"
         THEN /\ req' = [req EXCEPT ![r] = Idle]
              /\ UNCHANGED <<products, consumed>>
         ELSE /\ products' = [products EXCEPT
                    ![item.product].stock = stock2,
                    ![item.product].inStock = IF inStock2 # req[r].inStock THEN inStock2 ELSE @]
              /\ consumed' = [consumed EXCEPT ![req[r].oid][item.product] = @ + item.quantity]
              /\ req' = [req EXCEPT ![r].i = @ + 1,
                           ![r].pc = IF req[r].i = Len(req[r].items) THEN "order" ELSE "find"]
  /\ UNCHANGED <<carts, orders, intents, now, passed, raced, wishlists, access>>

\* await order.save(): updateOrderToPaid writes isPaid, paidAt, orderStatus
\* and the paymentResult it recorded; stripeWebhook writes isPaid, paidAt and
\* paymentResult (its order.status is not a schema path and is not stored).
OrderSave(r) ==
  /\ req[r].op \in {"pay", "webhook"} /\ req[r].pc = "order"
  /\ IF orders[req[r].oid].exists
     THEN orders' = [orders EXCEPT ![req[r].oid] =
            [@ EXCEPT !.isPaid = TRUE, !.paidAt = req[r].paidAt,
                      !.orderStatus = IF req[r].op = "pay" THEN "processing" ELSE @,
                      !.prId = IF req[r].prId # 0 THEN req[r].prId ELSE @,
                      !.prStatus = IF req[r].prId # 0 THEN "succeeded" ELSE @]]
     ELSE UNCHANGED orders
  /\ req' = [req EXCEPT ![r] = Idle]
  /\ UNCHANGED <<products, carts, intents, now, consumed, passed, raced, wishlists, access>>

\* ------------------------------------------------------------ status update
\* authorize('admin') and updateOrderStatus
\* A status route without authorize('admin').
UpdateOrderStatusOutAnyRole(role, o, status) ==
  IF status \notin validStatuses THEN "InvalidStatus"
  ELSE IF o \notin OrderIds \/ ~orders[o].exists THEN "NotFound"
  ELSE "ok"

UpdateOrderStatusOut(role, o, status) ==
  IF role # "admin" THEN "Forbidden"
  ELSE IF status \notin validStatuses THEN "InvalidStatus"
  ELSE IF o \notin OrderIds \/ ~orders[o].exists THEN "NotFound"
  ELSE "ok"

UpdateOrderStatus(role, o, status) ==
  /\ IF UpdateOrderStatusOut(role, o, status) = "ok"
     THEN orders' = [orders EXCEPT ![o] =
            [@ EXCEPT !.orderStatus = status,
                      !.isDelivered = IF status = "delivered" THEN TRUE ELSE @,
                      !.deliveredAt = IF status = "delivered" THEN now ELSE @]]
     ELSE UNCHANGED orders
  /\ UNCHANGED <<products, carts, intents, req, now, consumed, passed, raced, wishlists, access>>

\* new Date() reads the clock.  Time is observed only through the timestamps
\* the handlers record, so the clock moves on once the current instant has
\* been recorded somewhere.
Recorded(t) ==
  \/ \E o \in OrderIds : orders[o].paidAt = t \/ orders[o].deliveredAt = t
  \/ \E r \in Slots : req[r].paidAt = t

Tick ==
  /\ now < MaxTime
  /\ Recorded(now)
  /\ now' = now + 1
  /\ UNCHANGED <<products, carts, orders, intents, req, consumed, passed, raced, wishlists, access>>

\* ------------------------------------------------------------ specification
\* ---------------------------------------------------------- wishlist handlers
\* Each handler is one findOne and at most one save of the user's wishlist.
\* getWishlist: find or create
GetWishlist(s) ==
  /\ wishlists' = [wishlists EXCEPT ![SessionUser(s)] = IF @.exists THEN @ ELSE NewWishlist]
  /\ UNCHANGED <<products, carts, orders, intents, req, now, consumed, passed, raced, access>>

\* addToWishlist: the answer
AddToWishlistOut(u, p) ==
  IF ~products[p].exists THEN "ProductNotFound"
  ELSE IF HasProduct(wishlists[u], p) THEN "AlreadyInWishlist"
  ELSE "ok"

\* addToWishlist
AddToWishlist(s, p) ==
  /\ LET u == SessionUser(s)
         wishlist == IF wishlists[u].exists THEN wishlists[u] ELSE NewWishlist
     IN  wishlists' = [wishlists EXCEPT ![u] =
           IF AddToWishlistOut(u, p) = "ProductNotFound" THEN @
           ELSE IF AddToWishlistOut(u, p) = "ok" THEN AddProduct(wishlist, p)
           ELSE wishlist]
  /\ UNCHANGED <<products, carts, orders, intents, req, now, consumed, passed, raced, access>>

\* removeFromWishlist: the answer
RemoveFromWishlistOut(u, p) ==
  IF ~wishlists[u].exists THEN "WishlistNotFound" ELSE "ok"

\* removeFromWishlist
RemoveFromWishlist(s, p) ==
  /\ wishlists' = [wishlists EXCEPT ![SessionUser(s)] =
        IF @.exists THEN RemoveProduct(@, p) ELSE @]
  /\ UNCHANGED <<products, carts, orders, intents, req, now, consumed, passed, raced, access>>

\* clearWishlist
ClearWishlist(s) ==
  /\ wishlists' = [wishlists EXCEPT ![SessionUser(s)] =
        IF @.exists THEN ClearedWishlist(@) ELSE @]
  /\ UNCHANGED <<products, carts, orders, intents, req, now, consumed, passed, raced, access>>

Roles == {"admin", "user"}
StatusInputs == {"shipped", "delivered", "refunded"}

Next ==
  \/ \E s \in Sessions : GetCart(s)
  \/ \E s \in Sessions, p \in Products, q \in Quantities : AddToCart(s, p, q)
  \/ \E s \in Sessions, p \in Products, q \in Quantities : UpdateCartItem(s, p, q)
  \/ \E s \in Sessions, p \in Products : RemoveFromCart(s, p)
  \/ \E s \in Sessions : ClearCart(s)
  \/ \E p \in Products, price \in Prices : UpdateProductPrice(p, price)
  \/ \E p \in Products, s \in 0 .. MaxStock : UpdateProductStock(p, s)
  \/ \E p \in Products, flag \in BOOLEAN : UpdateProductInStock(p, flag)
  \/ \E p \in Products : DeleteProduct(p)
  \/ \E r \in Sessions, a \in Addresses, m \in Methods : CoStart(r, a, m)
  \/ \E r \in Sessions : CoCheck(r)
  \/ \E r \in Sessions : CoSave(r)
  \/ \E r \in Sessions : CoClear(r)
  \/ \E r \in Sessions, created \in BOOLEAN : CoIntent(r, created)
  \/ \E r \in Sessions, o \in 1 .. MaxOrders, pi \in {0} \cup intents,
        v \in GatewayStatuses \cup {"throw"} : PayStart(r, o, pi, v)
  \/ \E id \in 1 .. MaxOrders : WebhookSucceeded(id)
  \/ \E id \in 1 .. MaxOrders : WebhookFailed(id)
  \/ \E r \in Slots : StockFind(r)
  \/ \E r \in Slots : StockSave(r)
  \/ \E r \in Slots : OrderSave(r)
  \/ \E role \in Roles, o \in 1 .. MaxOrders, s \in StatusInputs : UpdateOrderStatus(role, o, s)
  \/ Tick
  \/ \E s \in Sessions : GetWishlist(s)
  \/ \E s \in Sessions, p \in Products : AddToWishlist(s, p)
  \/ \E s \in Sessions, p \in Products : RemoveFromWishlist(s, p)
  \/ \E s \in Sessions : ClearWishlist(s)
  \/ \E u \in Users, t \in Tabs : GetCartFind(u, t)
  \/ \E u \in Users, t \in Tabs : GetCartCreate(u, t)
  \/ \E u \in Users, t \in Tabs : GetCartEnd(u, t)

Spec == Init /\ [][Next]_vars

\* ------------------------------------------------ first access to the cart
\* Two tabs of each user fetch the cart while carts are emptied and filled.
AccessNext ==
  \/ \E u \in Users, t \in Tabs : GetCartFind(u, t)
  \/ \E u \in Users, t \in Tabs : GetCartCreate(u, t)
  \/ \E u \in Users, t \in Tabs : GetCartEnd(u, t)
  \/ \E s \in Sessions : AddToCart(s, "p1", 1)

AccessSpec == Init /\ [][AccessNext]_vars

\* ------------------------------------------------------- the wishlists
\* The wishlist handlers of both users, while the admin deletes products.
WishlistNext ==
  \/ \E s \in Sessions : GetWishlist(s)
  \/ \E s \in Sessions, p \in Products : AddToWishlist(s, p)
  \/ \E s \in Sessions, p \in Products : RemoveFromWishlist(s, p)
  \/ \E s \in Sessions : ClearWishlist(s)
  \/ \E p \in Products : DeleteProduct(p)

WishlistSpec == Init /\ [][WishlistNext]_vars

\* ------------------------------------------------- one shopper and the catalog
\* The cart and catalog handlers with every quantity, for the session s1.
CartInit == Init /\ carts["u2"] = NoCart

CartNext ==
  \/ GetCart("s1")
  \/ \E p \in Products, q \in Quantities : AddToCart("s1", p, q)
  \/ \E p \in Products, q \in Quantities : UpdateCartItem("s1", p, q)
  \/ \E p \in Products : RemoveFromCart("s1", p)
  \/ ClearCart("s1")
  \/ \E p \in Products, price \in Prices : UpdateProductPrice(p, price)
  \/ \E p \in Products, s \in 0 .. MaxStock : UpdateProductStock(p, s)
  \/ \E p \in Products : DeleteProduct(p)

CartSpec == CartInit /\ [][CartNext]_vars

\* ------------------------------------------------- one shopper checking out
\* The session s1 edits its cart and checks out with every address and
\* payment method while the catalog changes under it.
CheckoutNext ==
  \/ GetCart("s1")
  \/ \E p \in Products : AddToCart("s1", p, 1)
  \/ \E p \in Products : UpdateCartItem("s1", p, 2)
  \/ \E p \in Products : RemoveFromCart("s1", p)
  \/ ClearCart("s1")
  \/ UpdateProductPrice("p1", 500)
  \/ \E p \in Products, s \in {0, 1} : UpdateProductStock(p, s)
  \/ DeleteProduct("p2")
  \/ \E a \in Addresses, m \in Methods : CoStart("s1", a, m)
  \/ CoCheck("s1")
  \/ CoSave("s1")
  \/ CoClear("s1")
  \/ \E created \in BOOLEAN : CoIntent("s1", created)

CheckoutSpec == CartInit /\ [][CheckoutNext]_vars

\* ------------------------------------------------- two shoppers paying
\* Both sessions check out the cart they start with and confirm payments
\* while the gateway delivers payment_intent.succeeded notifications.
\* The request bodies of the pay route: an order id with no paymentIntentId
\* (0) or with the id of the intent created for that order.
OwnIntent == {x \in (1 .. MaxOrders) \X ({0} \cup intents) : x[2] \in {0, x[1]}}

PayNext ==
  \/ \E r \in Sessions, m \in paymentMethodEnum : CoStart(r, "full", m)
  \/ \E r \in Sessions : CoCheck(r)
  \/ \E r \in Sessions : CoSave(r)
  \/ \E r \in Sessions : CoClear(r)
  \/ \E r \in Sessions, created \in BOOLEAN : CoIntent(r, created)
  \/ \E r \in Sessions, x \in OwnIntent, v \in GatewayStatuses \cup {"throw"} :
        PayStart(r, x[1], x[2], v)
  \/ \E id \in 1 .. MaxOrders : WebhookSucceeded(id)
  \/ \E r \in Slots : StockFind(r)
  \/ \E r \in Slots : StockSave(r)
  \/ \E r \in Slots : OrderSave(r)

PaySpec == Init /\ [][PayNext]_vars

\* ------------------------------------------------- orders after checkout
\* Both sessions adjust and check out the cart they start with; the admin
\* moves the orders through the statuses while the clock advances.
LifecycleNext ==
  \/ \E s \in Sessions, p \in Products : UpdateCartItem(s, p, 2)
  \/ \E s \in Sessions : RemoveFromCart(s, "p1")
  \/ \E r \in Sessions, m \in paymentMethodEnum : CoStart(r, "full", m)
  \/ \E r \in Sessions : CoCheck(r)
  \/ \E r \in Sessions : CoSave(r)
  \/ \E r \in Sessions : CoClear(r)
  \/ \E r \in Sessions : CoIntent(r, TRUE)
  \/ \E role \in Roles, o \in 1 .. MaxOrders, s \in StatusInputs : UpdateOrderStatus(role, o, s)
  \/ Tick

\* The first shopper starts with one stored item, the second with two.
LifecycleInit == Init /\ Len(carts["u1"].items) = 1 /\ Len(carts["u2"].items) = 2

LifecycleSpec == LifecycleInit /\ [][LifecycleNext]_vars

\* ------------------------------------------------- two shoppers, one product
\* Both shoppers start with the same product in their cart, may raise the
\* quantity, check out and confirm their payments, while the admin edits
\* the stock of that product.
StockInit == Init /\ \A u \in Users : Len(carts[u].items) = 1

StockNext ==
  \/ \E s \in Sessions : UpdateCartItem(s, "p1", 2)
  \/ \E s \in {0, 1} : UpdateProductStock("p1", s)
  \/ \E r \in Sessions, m \in paymentMethodEnum : CoStart(r, "full", m)
  \/ \E r \in Sessions : CoCheck(r)
  \/ \E r \in Sessions : CoSave(r)
  \/ \E r \in Sessions : CoClear(r)
  \/ \E r \in Sessions : CoIntent(r, TRUE)
  \/ \E r \in Sessions, x \in OwnIntent : PayStart(r, x[1], x[2], "succeeded")
  \/ \E r \in Sessions : StockFind(r)
  \/ \E r \in Sessions : StockSave(r)
  \/ \E r \in Sessions : OrderSave(r)

StockSpec == StockInit /\ [][StockNext]_vars

\* ------------------------------------------------- a catalog nobody restocks
\* The same two shoppers with no admin edit: the stock a product starts
\* with is all that is ever available.
OversellNext ==
  \/ \E s \in Sessions : UpdateCartItem(s, "p1", 2)
  \/ \E r \in Sessions, m \in paymentMethodEnum : CoStart(r, "full", m)
  \/ \E r \in Sessions : CoCheck(r)
  \/ \E r \in Sessions : CoSave(r)
  \/ \E r \in Sessions : CoClear(r)
  \/ \E r \in Sessions : CoIntent(r, TRUE)
  \/ \E r \in Sessions, x \in OwnIntent : PayStart(r, x[1], x[2], "succeeded")
  \/ \E r \in Sessions : StockFind(r)
  \/ \E r \in Sessions : StockSave(r)
  \/ \E r \in Sessions : OrderSave(r)

OversellSpec == StockInit /\ [][OversellNext]_vars

\* ------------------------------------------------- notifications delivered
\* The shoppers check out and may confirm their payments; the gateway delivers
\* payment_intent.succeeded for the intents it created.  Delivery and the
\* steps of the notification handler are fair: a notification that can do
\* something is not held back forever.  Nothing obliges a shopper to call
\* the confirmation endpoint.
NotifyNext ==
  \/ \E r \in Sessions, m \in paymentMethodEnum : CoStart(r, "full", m)
  \/ \E r \in Sessions : CoCheck(r)
  \/ \E r \in Sessions : CoSave(r)
  \/ \E r \in Sessions : CoClear(r)
  \/ \E r \in Sessions : CoIntent(r, TRUE)
  \/ \E r \in Sessions, x \in OwnIntent, v \in GatewayStatuses : PayStart(r, x[1], x[2], v)
  \/ \E id \in 1 .. MaxOrders : WebhookSucceeded(id)
  \/ \E r \in Slots : StockFind(r)
  \/ \E r \in Slots : StockSave(r)
  \/ \E r \in Slots : OrderSave(r)

NotifyFair ==
  /\ WF_vars(\E id \in 1 .. MaxOrders : WebhookSucceeded(id))
  /\ WF_vars(StockFind("gw"))
  /\ WF_vars(StockSave("gw"))
  /\ WF_vars(OrderSave("gw"))

NotifySpec == StockInit /\ [][NotifyNext]_vars /\ NotifyFair

\* ------------------------------------------------ the life of one order
\* One shopper checks out and pays, the gateway notifies, the admin moves the
\* order on and edits or deletes the products, and the shopper fills and
\* empties the cart again.
FrameInit == Init /\ Len(carts["u1"].items) = 2 /\ carts["u2"] = NoCart

FrameNext ==
  \/ \E m \in paymentMethodEnum : CoStart("s1", "full", m)
  \/ CoCheck("s1")
  \/ CoSave("s1")
  \/ CoClear("s1")
  \/ CoIntent("s1", TRUE)
  \/ \E x \in OwnIntent : PayStart("s1", x[1], x[2], "succeeded")
  \/ \E id \in 1 .. MaxOrders : WebhookSucceeded(id)
  \/ \E id \in 1 .. MaxOrders : WebhookFailed(id)
  \/ \E r \in Slots : StockFind(r)
  \/ \E r \in Slots : StockSave(r)
  \/ \E r \in Slots : OrderSave(r)
  \/ \E o \in 1 .. MaxOrders, st \in {"shipped", "cancelled"} : UpdateOrderStatus("admin", o, st)
  \/ UpdateProductPrice("p1", 500)
  \/ UpdateProductStock("p1", 0)
  \/ \E p \in Products : DeleteProduct(p)
  \/ AddToCart("s1", "p1", 1)
  \/ ClearCart("s1")

FrameSpec == FrameInit /\ [][FrameNext]_vars

\* ---------------------------------------------------------------- claims
\* C4 (as claimed): addItem with a quantity above the product's stock fails
\* with InsufficientStock and leaves the cart's items and totals unchanged,
\* also when the product is not yet in the cart.
C4_AddAboveStockRejected ==
  [][\A p \in Products, q \in Quantities :
       (AddToCart("s1", p, q) /\ products[p].exists /\ products[p].inStock
          /\ q > products[p].stock)
       => /\ AddToCartOut("u1", p, q).res = "InsufficientStock"
          /\ carts'["u1"].items = carts["u1"].items
          /\ carts'["u1"].totalPrice = carts["u1"].totalPrice
          /\ carts'["u1"].totalItems = carts["u1"].totalItems]_vars

NoDuplicateProducts(items) ==
  \A j, k \in 1 .. Len(items) : j # k => items[j].product # items[k].product

QuantityOf(items, p) ==
  IF FindIndex(items, p) = 0 THEN 0 ELSE items[FindIndex(items, p)].quantity

RECURSIVE LineTotals(_)
LineTotals(items) ==
  IF items = <<>> THEN 0
  ELSE Head(items).price * Head(items).quantity + LineTotals(Tail(items))

RECURSIVE Units(_)
Units(items) ==
  IF items = <<>> THEN 0 ELSE Head(items).quantity + Units(Tail(items))

LineFails(r) ==
  LET item == req[r].items[req[r].i]
  IN  \/ ~products[item.product].exists
      \/ ~products[item.product].inStock
      \/ products[item.product].stock < item.quantity

\* C6: when the validation loop of a checkout meets a line that cannot be
\* served (whichever line it is), the request ends with NotFound or OutOfStock,
\* no order is created and the cart is left as it was.
C6_FailedLineAbortsCheckout ==
  [][(req["s1"].pc = "check" /\ LineFails("s1") /\ CoCheck("s1"))
       => /\ CheckStock(req["s1"].items[req["s1"].i]) \in {"NotFound", "OutOfStock"}
          /\ req'["s1"] = Idle
          /\ orders' = orders
          /\ carts' = carts]_vars

\* The second line of a two-line cart is the one that fails, the first passed.
C6_Witness ==
  /\ req["s1"].op = "checkout" /\ req["s1"].pc = "check"
  /\ req["s1"].i = 2
  /\ LineFails("s1")
  /\ carts["u1"].items = req["s1"].items
  /\ orders = <<>>

\* C7 (as claimed): a checkout whose lines all passed the stock check, with a
\* complete address and a valid payment method, persists an order whose items
\* equal the cart's items field by field.
C7_ValidCheckoutPersistsOrder ==
  [][(CoSave("s1") /\ req["s1"].addr = "full" /\ req["s1"].method \in paymentMethodEnum)
       => /\ Len(orders') = Len(orders) + 1
          /\ orders'[Len(orders')].orderItems = req["s1"].items]_vars

PriceOf(items, p) ==
  IF FindIndex(items, p) = 0 THEN 0 ELSE items[FindIndex(items, p)].price

\* C9: no step changes the price of an item that stays in a cart (a catalog
\* price change, a later addItem or updateQuantity included), and the order a
\* checkout persists carries the prices of the cart items it loaded.
C9_PriceSnapshot ==
  /\ [][\A u \in Users :
          \A j \in 1 .. Len(carts[u].items), k \in 1 .. Len(carts'[u].items) :
            carts'[u].items[k].product = carts[u].items[j].product
            => carts'[u].items[k].price = carts[u].items[j].price]_vars
  /\ [][(Len(orders') > Len(orders) /\ CoSave("s1"))
          => \A k \in 1 .. Len(req["s1"].items) :
               orders'[Len(orders')].orderItems[k].price = req["s1"].items[k].price]_vars

\* The catalog price of p1 went from 200 to 500; the cart item whose quantity
\* was raised afterwards and the order placed afterwards both still say 200.
C9_Witness ==
  /\ products["p1"].exists /\ products["p1"].price = 500
  /\ \E o \in OrderIds : \E k \in 1 .. Len(orders[o].orderItems) :
       orders[o].orderItems[k].product = "p1" /\ orders[o].orderItems[k].price = 200
  /\ FindIndex(carts["u1"].items, "p1") > 0
  /\ PriceOf(carts["u1"].items, "p1") = 200
  /\ QuantityOf(carts["u1"].items, "p1") = 2

\* ------------------------------------------------------- claims on payment
\* Units of product p ordered by order o.
Ordered(o, p) == QuantityOf(orders[o].orderItems, p)

\* C1: when one updateOrderToPaid request and payment_intent.succeeded
\* notifications work on the same unpaid stripe order, the stock of each
\* product is decremented for that order at most once while they run and
\* exactly once when they are done.
C1_PayAndWebhookDecrementOnce ==
  \A o \in OrderIds, p \in Products :
    (orders[o].paymentMethod = "stripe" /\ passed[o] <= 1)
    => /\ consumed[o][p] <= Ordered(o, p)
       /\ (orders[o].isPaid /\ ~PayInFlight(o) /\ req["gw"] = Idle)
            => consumed[o][p] = Ordered(o, p)

\* A notification for the order's intent was handled while the only payment
\* request on the order was in flight; both are done and the order is paid.
C1_Witness ==
  \E o \in OrderIds :
    /\ orders[o].paymentMethod = "stripe" /\ orders[o].isPaid
    /\ raced[o] /\ passed[o] = 1
    /\ ~PayInFlight(o) /\ req["gw"] = Idle
    /\ \E p \in Products : Ordered(o, p) >= 1 /\ consumed[o][p] = Ordered(o, p)

\* C2: once an order is paid every further updateOrderToPaid on it answers
\* AlreadyPaid, starts no stock loop and leaves the order paid as it was, so
\* after the first confirmation and any number of later ones the stock was
\* decremented once for the order.
C2_SecondPayRejected ==
  /\ [](\A o \in OrderIds :
          (orders[o].exists /\ orders[o].isPaid)
          => /\ \A pi \in {0} \cup intents, v \in GatewayStatuses \cup {"throw"} :
                  PayGuard(o, pi, v) = "AlreadyPaid"
             /\ (orders[o].paymentMethod = "stripe" /\ passed[o] = 1 /\ ~PayInFlight(o))
                  => \A p \in Products : consumed[o][p] = Ordered(o, p))
  /\ [][\A o \in OrderIds :
          (orders[o].exists /\ orders[o].isPaid /\ ~PayInFlight(o))
          => /\ ~PayInFlight(o)'
             /\ passed'[o] = passed[o]
             /\ consumed'[o] = consumed[o]
             /\ orders'[o].isPaid /\ orders'[o].paidAt = orders[o].paidAt]_vars

\* A stripe order confirmed by one request, with every slot idle again and
\* the stock of its product one order below the initial stock.
C2_Witness ==
  \E o \in OrderIds :
    /\ orders[o].paymentMethod = "stripe" /\ orders[o].isPaid
    /\ orders[o].orderStatus = "processing"
    /\ passed[o] = 1
    /\ \A r \in Slots : req[r] = Idle
    /\ \A p \in Products :
         consumed[o][p] = Ordered(o, p) /\ products[p].stock = MaxStock - Ordered(o, p)

\* ------------------------------------------------- claims on the status update
\* C10 (as claimed): once an order is delivered, its deliveredAt keeps the
\* value the first 'delivered' update wrote, whatever update follows.
C10_DeliveredAtWrittenOnce ==
  [][\A o \in OrderIds :
       orders[o].isDelivered
       => orders'[o].isDelivered /\ orders'[o].deliveredAt = orders[o].deliveredAt]_vars

\* ------------------------------------------------------- claims on the stock
\* C11 (as claimed): every product has inStock = (stock > 0) in every state.
C11_InStockMatchesStock ==
  \A p \in Products :
    products[p].exists => (products[p].inStock = (products[p].stock > 0))

\* C12: the stock of every product is a non-negative integer in every state,
\* also when the orders being confirmed passed checkout for the same units.
C12_StockNonNegative ==
  \A p \in Products : products[p].stock \in Nat

\* Two orders passed checkout for the same units of p1; one was confirmed,
\* the confirmation of the other stopped at the product save and left the
\* order unpaid.
C12_Witness ==
  \E o1, o2 \in OrderIds :
    /\ o1 # o2
    /\ orders[o1].paymentMethod = "stripe" /\ orders[o1].isPaid
    /\ consumed[o1]["p1"] = Ordered(o1, "p1")
    /\ orders[o2].paymentMethod = "stripe" /\ ~orders[o2].isPaid
    /\ passed[o2] >= 1 /\ ~PayInFlight(o2)
    /\ products["p1"].stock < Ordered(o2, "p1")

RECURSIVE PaidUnits(_, _)
PaidUnits(o, p) ==
  IF o = 0 THEN 0
  ELSE (IF orders[o].exists /\ orders[o].isPaid THEN Ordered(o, p) ELSE 0)
       + PaidUnits(o - 1, p)

\* C16 (as claimed): with no restock, the units of a product over all paid
\* orders never exceed the stock the product started with.
C16_NoOverselling ==
  \A p \in Products : PaidUnits(Len(orders), p) <= MaxStock

\* ------------------------------------------------ claims on the notification
AwaitsNotification(o) ==
  IF o \in intents THEN orders[o].exists /\ ~orders[o].isPaid ELSE FALSE

PaidTransitionDone(o) ==
  IF o \in OrderIds
  THEN /\ orders[o].isPaid
       /\ orders[o].orderStatus = "processing"
       /\ \A p \in Products : consumed[o][p] = Ordered(o, p)
  ELSE FALSE

\* C13 (as claimed): once checkout has created the payment intent of a stripe
\* order, the payment_intent.succeeded notifications for that intent lead to
\* the order being paid, in processing, with the stock of each ordered
\* product decremented by the ordered quantity.
C13_NotificationMarksPaid ==
  \A o \in 1 .. MaxOrders : AwaitsNotification(o) ~> PaidTransitionDone(o)

\* C14 (as claimed): a stripe order becomes paid only by the save of a request
\* that verified a payment intent with the gateway and was told 'succeeded'
\* (such a request carries the verified intent id as its payment result).
C14_PaidOnlyAfterVerification ==
  [][\A o \in OrderIds :
       (orders[o].paymentMethod = "stripe" /\ ~orders[o].isPaid /\ orders'[o].isPaid)
       => \E r \in Slots :
            /\ req[r].op \in {"pay", "webhook"} /\ req[r].pc = "order"
            /\ req[r].oid = o /\ req[r].prId # 0]_vars

\* C15 (as claimed): a request of a user who does not own the order is
\* rejected, so no session is ever inside the payment flow of an order of
\* another user.
C15_OnlyOwnerPays ==
  \A r \in Sessions :
    req[r].op = "pay" => orders[req[r].oid].user = SessionUser(r)

\* C17: when createPaymentIntent fails in a stripe checkout, the order that
\* the checkout has just saved is deleted, the request ends, and the cart, which
\* was cleared before, stays empty; an order that was deleted is a stripe
\* order with no payment intent and it never comes back.
C17_FailedIntentDeletesOrder ==
  /\ [](\A o \in OrderIds :
          ~orders[o].exists =>
            /\ orders[o].paymentMethod = "stripe"
            /\ orders[o].paymentIntentId = 0 /\ o \notin intents)
  /\ [][\A r \in Sessions :
          (req[r].op = "checkout" /\ req[r].pc = "intent" /\ req'[r] = Idle
             /\ req[r].oid \notin intents')
          => /\ ~orders'[req[r].oid].exists
             /\ carts' = carts
             /\ carts'[SessionUser(r)].items = <<>>
             /\ carts'[SessionUser(r)].totalPrice = 0]_vars
  /\ [][\A o \in OrderIds : ~orders[o].exists => ~orders'[o].exists]_vars

C17_Witness ==
  \E o \in OrderIds :
    /\ ~orders[o].exists
    /\ carts[orders[o].user].items = <<>>
    /\ \A r \in Slots : req[r] = Idle

\* C18: a status update succeeds exactly for an administrator, an existing
\* order and one of the five statuses; a non-admin is answered Forbidden and an
\* unknown status InvalidStatus; a successful update stores the requested
\* status whatever the status was, and a rejected one leaves the order as it is.
C18_SetStatus ==
  /\ [](\A role \in Roles, o \in 1 .. MaxOrders, s \in StatusInputs :
          /\ (UpdateOrderStatusOut(role, o, s) = "ok")
               = (/\ role = "admin"
                  /\ s \in {"pending", "processing", "shipped", "delivered", "cancelled"}
                  /\ o <= Len(orders) /\ orders[o].exists)
          /\ role # "admin" => UpdateOrderStatusOut(role, o, s) = "Forbidden"
          /\ (role = "admin" /\ s = "refunded") => UpdateOrderStatusOut(role, o, s) = "InvalidStatus")
  /\ [][\A o \in OrderIds :
          orders'[o] # orders[o] =>
            \A role \in Roles, s \in StatusInputs :
              UpdateOrderStatus(role, o, s) =>
                /\ role = "admin" /\ s \in validStatuses /\ orders[o].exists
                /\ orders'[o].orderStatus = s
                /\ \A q \in OrderIds \ {o} : orders'[q] = orders[q]]_vars
  /\ [][\A o \in OrderIds :
          orders'[o].orderStatus # orders[o].orderStatus =>
            \/ req # req'
            \/ \E s \in StatusInputs \cap validStatuses : UpdateOrderStatus("admin", o, s)]_vars

C18_Witness ==
  \E o \in OrderIds :
    orders[o].exists /\ orders[o].isDelivered /\ orders[o].orderStatus = "shipped"

\* C19 (as claimed): adding a product that the wishlist already holds reports
\* no error.
C19_DuplicateAddReportsNoError ==
  \A u \in Users, p \in Products :
    (products[p].exists /\ HasProduct(wishlists[u], p)) => AddToWishlistOut(u, p) = "ok"

\* C20 (as claimed): an update of a cart item to a quantity of 0 or less
\* answers and leaves the cart exactly as the removal of that item does.
C20_UpdateToZeroRemoves ==
  \A p \in Products, q \in {x \in Quantities : x <= 0} :
    FindIndex(carts["u1"].items, p) > 0 =>
      UpdateCartItemOut("u1", p, q) = RemoveFromCartOut("u1", p)

\* C21 (as claimed): a request that fetches the cart of a user who has none
\* yet is answered with a cart, never with an error, also when two such
\* requests of the same user interleave.
C21_FirstAccessReturnsCart ==
  \A u \in Users, t \in Tabs : access[u][t].res # "DuplicateKey"

\* C22: the order that a cod checkout saves is paid, with paidAt set to the
\* time of the checkout and the status processing, and a cod checkout never
\* reaches the payment-intent step; the order that a stripe checkout saves is
\* unpaid and pending.
C22_CodPaidAtCreation ==
  /\ [](\A r \in Sessions :
          (req[r].op = "checkout" /\ req[r].pc = "intent") => req[r].method = "stripe")
  /\ [](\A o \in OrderIds :
          orders[o].paymentMethod = "cod" => (orders[o].paymentIntentId = 0 /\ o \notin intents))
  /\ [][Len(orders') = Len(orders) + 1 =>
          LET order == orders'[Len(orders')]
          IN  IF order.paymentMethod = "cod"
              THEN order.isPaid /\ order.paidAt = now /\ order.paidAt > 0
                   /\ order.orderStatus = "processing"
              ELSE ~order.isPaid /\ order.paidAt = 0 /\ order.orderStatus = "pending"]_vars

C22_Witness ==
  \E o1, o2 \in OrderIds :
    /\ orders[o1].paymentMethod = "cod" /\ orders[o1].isPaid /\ orders[o1].orderStatus = "processing"
    /\ orders[o2].paymentMethod = "stripe" /\ ~orders[o2].isPaid /\ orders[o2].orderStatus = "pending"

\* C23 (as claimed): an update of a cart item to a quantity above 0 answers
\* ItemNotFound when the cart has no item of the product and InsufficientStock
\* when the quantity is above the product's stock, the cart staying as it is;
\* in every other case the item gets exactly that quantity and the other
\* items stay as they are.
C23_UpdateQuantity ==
  \A p \in Products, q \in {x \in Quantities : x > 0} :
    carts["u1"].exists =>
      LET out == UpdateCartItemOut("u1", p, q)
          idx == FindIndex(carts["u1"].items, p)
      IN  IF idx = 0
          THEN out.res = "ItemNotFound" /\ out.cart = carts["u1"]
          ELSE IF products[p].exists /\ q > products[p].stock
          THEN out.res = "InsufficientStock" /\ out.cart = carts["u1"]
          ELSE /\ out.res = "ok"
               /\ Len(out.cart.items) = Len(carts["u1"].items)
               /\ out.cart.items[idx].quantity = q
               /\ \A k \in 1 .. Len(carts["u1"].items) :
                    k # idx => out.cart.items[k] = carts["u1"].items[k]

\* C25 (as claimed): an update of the quantity of a cart item never ends in
\* an unexpected error, also when the product of the item has been deleted.
C25_DeletedProductTolerated ==
  \A p \in Products, q \in Quantities :
    UpdateCartItemOut("u1", p, q).res # "Unexpected"

\* C24: the order items and the shipping address of a stored order are the
\* same after every step as before it, whichever handler takes the step:
\* payment confirmation, gateway notification, status update, edit or deletion
\* of a product, or a change of the user's cart.
C24_OrderSnapshotFrozen ==
  [][\A o \in OrderIds :
       /\ orders'[o].orderItems = orders[o].orderItems
       /\ orders'[o].shippingAddress = orders[o].shippingAddress]_vars

C24_Witness ==
  \E o \in OrderIds :
    /\ orders[o].isPaid /\ orders[o].prStatus = "failed" /\ orders[o].orderStatus = "shipped"
    /\ ~products["p1"].exists /\ ~products["p2"].exists
    /\ Len(orders[o].orderItems) = 2
    /\ carts[orders[o].user].items = <<>> /\ carts[orders[o].user].exists

\* C26: no step of a checkout changes a product, so the validation of the
\* stock reserves nothing, and two users can each hold an unpaid order for
\* the last unit of one product.
C26_CheckoutLeavesStock ==
  [][\A r \in Sessions :
       ((req[r].op = "checkout" \/ req'[r].op = "checkout") /\ req'[r] # req[r])
       => products' = products]_vars

C26_Witness ==
  \E o1, o2 \in OrderIds :
    /\ orders[o1].user # orders[o2].user
    /\ products["p1"].exists /\ products["p1"].stock = 1
    /\ \A o \in {o1, o2} :
         /\ orders[o].exists /\ ~orders[o].isPaid /\ passed[o] = 0
         /\ Ordered(o, "p1") = 1

\* C27 (as claimed): however the payment confirmations of one order
\* interleave, they take the order's quantity of a product off the stock no
\* more than once: while there is one order only, and no admin edits the
\* stock, the stock of a product is never below the initial stock less the
\* quantity the order holds of it.
C27_ConfirmationsDecrementOnce ==
  Len(orders) = 1 =>
    \A p \in Products : products[p].stock >= MaxStock - Ordered(1, p)

\* Units of p over the orders that a payment confirmation marked paid.
RECURSIVE ConfirmedUnits(_, _)
ConfirmedUnits(o, p) ==
  IF o = 0 THEN 0
  ELSE (IF orders[o].exists /\ orders[o].isPaid /\ orders[o].paymentMethod = "stripe"
        THEN Ordered(o, p) ELSE 0)
       + ConfirmedUnits(o - 1, p)

\* C28 (as claimed): with no admin edit of the stock, whenever no payment
\* confirmation is in flight and each order was confirmed by one request at
\* most, the stock of every product is its initial stock less the units of
\* the orders that were confirmed.
C28_StockConserved ==
  ((\A r \in Slots : req[r].op \notin {"pay", "webhook"}) /\ (\A o \in OrderIds : passed[o] <= 1))
  => \A p \in Products : products[p].stock = MaxStock - ConfirmedUnits(Len(orders), p)

\* C29 (as claimed): a payment confirmation that ends in an error leaves the
\* stock as it found it, so an order that is still unpaid, with no
\* confirmation in flight, has taken nothing off the stock of any product.
C29_FailedConfirmationTakesNothing ==
  \A o \in OrderIds :
    (orders[o].exists /\ ~orders[o].isPaid /\ ~PayInFlight(o) /\ req["gw"].oid # o)
    => \A p \in Products : consumed[o][p] = 0

\* C30: an order that is paid stays paid through every step (status update,
\* confirmation, failed-payment notification), a further confirmation of it
\* is turned away, and every paid order has its paidAt set.
C30_PaidIsMonotone ==
  /\ [](\A o \in OrderIds : orders[o].isPaid => orders[o].paidAt > 0)
  /\ [](\A o \in OrderIds : \A pi \in {0, o} :
          (orders[o].exists /\ orders[o].isPaid) => PayGuard(o, pi, "succeeded") = "AlreadyPaid")
  /\ [][\A o \in OrderIds : orders[o].isPaid => orders'[o].isPaid]_vars

C30_Witness ==
  \E o \in OrderIds :
    /\ orders[o].isPaid /\ orders[o].paidAt > 0
    /\ orders[o].paymentMethod = "stripe"
    /\ orders[o].prStatus = "failed" /\ orders[o].orderStatus = "cancelled"
====
